---------------------------- MODULE Spec2Model ----------------------------
(***************************************************************************)
(* A model of streamlit_app.py, the PTT fleet management dashboard:        *)
(*   - EnhancedWialonService (login, make_request, the fleet fetch with    *)
(*     its activity classification and the alternative last-message        *)
(*     lookup),                                                            *)
(*   - create_enhanced_metrics_from_real_data, the metric synthesizer,     *)
(*   - calculate_period_days and the "Process Fleet Data" handler of main. *)
(*                                                                         *)
(* Conventions.                                                            *)
(*   Python dicts are TLA+ records/functions over strings; d.get(k, x) is  *)
(*   Get(d, k, x) and "k in d" is k \in DOMAIN d.                          *)
(*   Python None (JSON null) is the empty tuple <<>>, a present value v is *)
(*   <<v>> wherever a slot can hold None.                                  *)
(*   Time is counted in whole hours since the epoch; a datetime is the     *)
(*   hour it denotes, a date is a day number.                              *)
(*   Python floats are exact rationals [n, d]; round(x, k) yields the      *)
(*   integer number of 10^-k units of the rounded value, so a 2-decimal    *)
(*   field of a metrics record holds hundredths and a 1-decimal field      *)
(*   tenths.  The rational is exact where the binary float carries a       *)
(*   representation error of about 1e-16 relative; that error only shows   *)
(*   where the exact value lies half-way between two decimals, and there   *)
(*   the direction round() takes is the floating-point unit's: fp_tie_up.  *)
(***************************************************************************)
EXTENDS Integers, Sequences, FiniteSets, TLC

VARIABLES
    hash_secret,     \* the secret this interpreter process salts str hashes with
    fp_tie_up,       \* where round() goes on an exact decimal tie
    now,             \* the wall clock, in hours
    session_id,      \* EnhancedWialonService.session_id
    connected,       \* st.session_state.connected
    fleet_data,      \* st.session_state.fleet_data
    processed_data,  \* st.session_state.processed_data
    backend,         \* what the Wialon backend answers: the environment
    fetch,           \* history: the hour of the last fleet fetch, the units
                     \* the search returned to it and, unit by unit, the
                     \* services its lookups requested
    settings,        \* the sidebar: the two date pickers and the report type
    request,         \* the arguments of a direct call of the synthesizer
    call,            \* history: the last direct call and what it returned,
                     \* or what the last "Process Fleet Data" was given
    report           \* the report generated in this run of the script, if any

vars == <<hash_secret, fp_tie_up, now, session_id, connected, fleet_data,
          processed_data, backend, fetch, settings, request, call, report>>

---------------------------------------------------------------------------
(* Bounds of the model.                                                    *)

MaxUnits == 2        \* units the backend holds
MaxHashSecret == 3   \* hash secrets a process may draw: 0..MaxHashSecret
MaxPeriod == 5       \* longest period_days passed to the synthesizer
MinPeriod == 2       \* periods go down to -MinPeriod
MaxBack == 2         \* the date pickers reach MaxBack days before today
MaxTicks == 1        \* hours the clock may advance
NowStart == 1000     \* the hour the program starts at

---------------------------------------------------------------------------
(* Python values.                                                          *)

None == <<>>

Some(v) == <<v>>

EmptyDict == [k \in {} |-> 0]

\* dict.get(k, dflt)
Get(d, k, dflt) == IF k \in DOMAIN d THEN d[k] ELSE dflt

\* a or b, on numbers
Or(a, b) == IF a # 0 THEN a ELSE b

Max(a, b) == IF a >= b THEN a ELSE b

\* A float, as the exact rational n/d with d > 0 (not in lowest terms).
Rat(n, d) == [n |-> n, d |-> d]

RatInt(i) == [n |-> i, d |-> 1]

RatAdd(a, b) ==
    IF a.d = b.d THEN [n |-> a.n + b.n, d |-> a.d]
    ELSE [n |-> a.n * b.d + b.n * a.d, d |-> a.d * b.d]

RatMul(a, b) == [n |-> a.n * b.n, d |-> a.d * b.d]

RatDiv(a, i) == [n |-> a.n, d |-> a.d * i]

\* int(x): truncation towards zero
PyInt(a) == IF a.n >= 0 THEN a.n \div a.d ELSE -((-a.n) \div a.d)

\* The width hashes are kept at: 2^16.
HashModulus == 2^16

Pow10(k) == IF k = 0 THEN 1 ELSE IF k = 1 THEN 10 ELSE 100

\* round(x, k), in units of 10^-k.  Off a tie the nearest decimal; on an
\* exact tie the side the float's representation error falls on.
PyRound(a, k) ==
    LET n  == IF a.d % Pow10(k) = 0 THEN a.n ELSE a.n * Pow10(k)
        d  == IF a.d % Pow10(k) = 0 THEN a.d \div Pow10(k) ELSE a.d
        fl == n \div d
        r2 == 2 * (n - fl * d)
    IN  IF r2 < d THEN fl
        ELSE IF r2 > d THEN fl + 1
        ELSE IF fp_tie_up THEN fl + 1 ELSE fl

---------------------------------------------------------------------------
(* The interpreter process.                                                *)

\* The names the backend gives its units, by position.
UnitNames == <<"TRK-001", "TRK-002", "TRK-003", "TRK-004">>

Names == {UnitNames[i] : i \in 1..MaxUnits}

\* Their bytes.
Utf8(s) ==
    CASE s = "TRK-001" -> <<84, 82, 75, 45, 48, 48, 49>>
      [] s = "TRK-002" -> <<84, 82, 75, 45, 48, 48, 50>>
      [] s = "TRK-003" -> <<84, 82, 75, 45, 48, 48, 51>>
      [] s = "TRK-004" -> <<84, 82, 75, 45, 48, 48, 52>>
      [] OTHER -> <<85, 110, 107, 110, 111, 119, 110>>

\* The secrets a process may draw at start-up (PYTHONHASHSEED).
HashSecrets == 0..MaxHashSecret

\* CPython salts the hash of a str with a secret drawn when the process
\* starts: hash(s) is a keyed hash of the bytes of s, a signed integer, the
\* same for the life of one process and different in the next.  The keyed
\* fold below stands for the keyed hash CPython uses (SipHash), at width
\* HashBits; callers see a function of (secret, bytes) and nothing else.
RECURSIVE KeyedFold(_, _, _)
KeyedFold(h, bytes, i) ==
    IF i > Len(bytes) THEN h
    ELSE KeyedFold((h * 31 + bytes[i]) % HashModulus, bytes, i + 1)

\* hash(s)
PyHash(s) ==
    LET u == KeyedFold((40503 * (hash_secret + 1)) % HashModulus, Utf8(s), 1)
    IN  IF 2 * u >= HashModulus THEN u - HashModulus ELSE u

---------------------------------------------------------------------------
(* create_enhanced_metrics_from_real_data                                  *)

\* activity_factor with 0.5 for every vehicle past a week
activity_factor_flat(days_inactive) ==
    IF days_inactive <= 1 THEN Rat(10, 10)
    ELSE IF days_inactive <= 7 THEN Rat(8, 10)
    ELSE Rat(5, 10)

\* activity_factor, by days_inactive
activity_factor(days_inactive) ==
    IF days_inactive <= 1 THEN Rat(10, 10)
    ELSE IF days_inactive <= 7 THEN Rat(8, 10)
    ELSE IF days_inactive <= 30 THEN Rat(5, 10)
    ELSE Rat(2, 10)

\* utilization_factor, by days_inactive: assigned, never read
utilization_factor(days_inactive) ==
    IF days_inactive <= 1 THEN Rat(10, 10)
    ELSE IF days_inactive <= 7 THEN Rat(7, 10)
    ELSE IF days_inactive <= 30 THEN Rat(4, 10)
    ELSE Rat(1, 10)

name_hash(vehicle_data) == PyHash(vehicle_data.name) % 1000

\* a base that may be negative
daily_distance_base_signed(h) == 50 - (h % 100)

daily_distance_base(h) == 50 + (h % 100)

\* a distance that leaves the activity factor out
period_distance_unscaled(h, period_days, af) ==
    RatInt(daily_distance_base(h) * period_days)

period_distance(h, period_days, af) ==
    RatMul(RatInt(daily_distance_base(h) * period_days), af)

avg_speed(h) == 35 + (h % 25)

driving_hours(pd, h) == RatDiv(pd, avg_speed(h))

\* engine hours at 1.2 times the driving hours
engine_hours_short(dh) == RatMul(dh, Rat(12, 10))

engine_hours(dh) == RatMul(dh, Rat(13, 10))

idling_hours(eh) == RatMul(eh, Rat(2, 10))

fuel_consumption(pd, h) ==
    RatMul(pd, RatAdd(Rat(25, 100), Rat(h % 10, 100)))

\* another emission factor
co2_emission_light(fuel) == RatMul(fuel, Rat(213, 100))

co2_emission(fuel) == RatMul(fuel, Rat(231, 100))

harsh_acceleration(pd, h) ==
    Max(0, PyInt(RatMul(RatDiv(pd, 100), RatInt(h % 3))))

harsh_braking(pd, h) ==
    Max(0, PyInt(RatMul(RatDiv(pd, 100), RatInt(h % 3))))

\* cornering events whatever the parity of the hash
harsh_cornering_any_seed(pd, h) ==
    Max(0, PyInt(RatDiv(pd, 150)))

harsh_cornering(pd, h) ==
    Max(0, PyInt(RatMul(RatDiv(pd, 150), RatInt(h % 2))))

speeding_violations(dh, h) ==
    Max(0, PyInt(RatMul(RatDiv(dh, 5), RatInt(h % 2))))

\* the total without the cornering events
total_harsh_events_straight(ha, hb, hc) == ha + hb

total_harsh_events(ha, hb, hc) == ha + hb + hc

create_enhanced_metrics_from_real_data(vehicle_data, period_days) ==
    LET current  == Get(vehicle_data, "current_data", EmptyDict)
        days_inactive == Get(vehicle_data, "days_inactive", 0)
        af   == activity_factor(days_inactive)
        uf   == utilization_factor(days_inactive)
        h    == name_hash(vehicle_data)
        pd   == period_distance(h, period_days, af)
        dh   == driving_hours(pd, h)
        eh   == engine_hours(dh)
        ih   == idling_hours(eh)
        current_speed == Get(current, "speed", 0)
        max_speed == Max(current_speed, 60 + (h % 40))
        fuel == fuel_consumption(pd, h)
        ha   == harsh_acceleration(pd, h)
        hb   == harsh_braking(pd, h)
        hc   == harsh_cornering(pd, h)
        engine_on_pct == RatAdd(RatInt(60), RatMul(af, RatInt(30)))
    IN  [ total_distance       |-> PyRound(pd, 2),
          max_speed            |-> PyRound(RatInt(max_speed), 1),
          avg_speed            |-> PyRound(RatInt(avg_speed(h)), 1),
          driving_hours        |-> PyRound(dh, 2),
          engine_hours         |-> PyRound(eh, 2),
          idling_hours         |-> PyRound(ih, 2),
          engine_on_percentage |-> PyRound(engine_on_pct, 1),
          fuel_consumption     |-> PyRound(fuel, 2),
          co2_emission         |-> PyRound(co2_emission(fuel), 2),
          harsh_acceleration   |-> ha,
          harsh_braking        |-> hb,
          harsh_cornering      |-> hc,
          total_harsh_events   |-> total_harsh_events(ha, hb, hc),
          speeding_violations  |-> speeding_violations(dh, h),
          fuel_level           |-> Get(current, "fuel_level", 50 + (h % 40)),
          power_voltage        |-> Get(current, "power_voltage", 12000 + (h % 1000)),
          current_location     |-> [ latitude  |-> Get(current, "latitude", 0),
                                     longitude |-> Get(current, "longitude", 0) ],
          last_update          |-> Get(vehicle_data, "last_message", Some(now)),
          days_since_update    |-> days_inactive,
          data_source          |-> "Real GPS + Period-based calculations",
          period_days          |-> period_days ]

\* calculate_period_days, on day numbers
\* a period that leaves the end date out
calculate_period_days_exclusive(start_date, end_date) == end_date - start_date

calculate_period_days(start_date, end_date) == (end_date - start_date) + 1


---------------------------------------------------------------------------
(* EnhancedWialonService                                                   *)

\* What requests.post(...).json() does: raises (no connection, a timeout, a
\* body that is not JSON) or returns the decoded body.
RespRaise == [kind |-> "raise"]

RespJson(body) == [kind |-> "json", body |-> body]

\* A JSON scalar as the backend sends it in the "t" slot of a message.
JNum(n) == [num |-> n]

JStr(x) == [str |-> x]

\* login: Some(result) and the new session_id, or None
login(sid, resp) ==
    IF resp.kind = "raise" THEN [result |-> None, sid |-> sid]
    ELSE IF "error" \in DOMAIN resp.body THEN [result |-> None, sid |-> sid]
    ELSE [result |-> Some(resp.body), sid |-> Some(resp.body.eid)]

\* make_request: Some(result) or None, the session_id afterwards, and
\* whether the request went out
make_request(sid, resp) ==
    IF sid = None THEN [result |-> None, sid |-> sid, sent |-> FALSE]
    ELSE IF resp.kind = "raise"
         THEN [result |-> None, sid |-> sid, sent |-> TRUE]
    ELSE IF "error" \in DOMAIN resp.body
         THEN [result |-> None,
               sid    |-> IF resp.body.error = 1 THEN None ELSE sid,
               sent   |-> TRUE]
    ELSE [result |-> Some(resp.body), sid |-> sid, sent |-> TRUE]

\* "if result and 'messages' in result: messages = ...; if messages:"
HasMessages(r) ==
    /\ r.result # None
    /\ "messages" \in DOMAIN r.result[1]
    /\ Len(r.result[1].messages) > 0

\* a lookup that takes the first message of the interval
get_unit_last_message_alternative_first(sid, answers) ==
    LET r1 == make_request(sid, answers.load_last)
        r2 == make_request(r1.sid, answers.load_interval)
        s1 == IF r1.sent THEN <<"messages/load_last">> ELSE <<>>
        s2 == IF r2.sent THEN <<"messages/load_interval">> ELSE <<>>
    IN  IF HasMessages(r1)
        THEN [msg |-> Some(r1.result[1].messages[1]), sid |-> r1.sid,
              asked |-> s1]
        ELSE IF HasMessages(r2)
        THEN [msg |-> Some(r2.result[1].messages[1]),
              sid |-> r2.sid, asked |-> s1 \o s2]
        ELSE [msg |-> None, sid |-> r2.sid, asked |-> s1 \o s2]

\* get_unit_last_message_alternative: the message found or None, the
\* session_id afterwards, the services asked in order
get_unit_last_message_alternative(sid, answers) ==
    LET r1 == make_request(sid, answers.load_last)
        r2 == make_request(r1.sid, answers.load_interval)
        s1 == IF r1.sent THEN <<"messages/load_last">> ELSE <<>>
        s2 == IF r2.sent THEN <<"messages/load_interval">> ELSE <<>>
    IN  IF HasMessages(r1)
        THEN [msg |-> Some(r1.result[1].messages[1]), sid |-> r1.sid,
              asked |-> s1]
        ELSE IF HasMessages(r2)
        THEN [msg |-> Some(r2.result[1].messages[Len(r2.result[1].messages)]),
              sid |-> r2.sid, asked |-> s1 \o s2]
        ELSE [msg |-> None, sid |-> r2.sid, asked |-> s1 \o s2]

\* The record built for a unit before its last message is looked at.
unit_info_defaults(unit) ==
    [ id              |-> Get(unit, "id", None),
      name            |-> Get(unit, "nm", "Unknown"),
      device_type     |-> Get(unit, "hw", "Unknown"),
      unique_id       |-> Get(unit, "uid", ""),
      phone           |-> Get(unit, "ph", ""),
      sensors         |-> Get(unit, "sens", EmptyDict),
      last_message    |-> None,
      days_inactive   |-> 999,
      activity_status |-> "Unknown",
      current_data    |-> EmptyDict,
      raw_unit_data   |-> unit ]

\* datetime.fromtimestamp(t) raises on anything but a number.
ValidTimestamp(t) == "num" \in DOMAIN t

\* (datetime.now() - last_time).days: timedelta.days is the floor
days_ago(last_time) == (now - last_time) \div 24

\* the tiers with the boundaries left out
activity_status_strict(days) ==
    IF days < 1 THEN "Very Active"
    ELSE IF days < 7 THEN "Active"
    ELSE IF days < 30 THEN "Somewhat Active"
    ELSE "Inactive"

activity_status(days) ==
    IF days <= 1 THEN "Very Active"
    ELSE IF days <= 7 THEN "Active"
    ELSE IF days <= 30 THEN "Somewhat Active"
    ELSE "Inactive"

current_data(last_pos, last_params) ==
    [ latitude   |-> Get(last_pos, "y", 0),
      longitude  |-> Get(last_pos, "x", 0),
      speed      |-> Get(last_pos, "s", 0),
      course     |-> Get(last_pos, "c", 0),
      satellites |-> Get(last_pos, "sc", 0),
      engine_on  |-> Or(Or(Get(last_params, "engine_on", 0),
                           Get(last_params, "ignition", 0)),
                        Get(last_params, "ign", 0)) # 0,
      fuel_level |-> Or(Get(last_params, "fuel_level", 0),
                        Get(last_params, "fuel_lvl", 0)),
      power_voltage |-> Or(Get(last_params, "pwr_ext", 0),
                           Get(last_params, "power", 0)),
      gsm_signal |-> Or(Get(last_params, "gsm_signal", 0),
                        Get(last_params, "gsm_level", 0)),
      temperature |-> Or(Get(last_params, "pcb_temp", 0),
                         Get(last_params, "temperature", 0)),
      odometer   |-> Or(Get(last_params, "mileage", 0),
                        Get(last_params, "odometer", 0)),
      engine_hours |-> Or(Get(last_params, "engine_hours", 0),
                          Get(last_params, "eh", 0)),
      harsh_acceleration |-> Get(last_params, "harsh_acceleration", 0),
      harsh_braking   |-> Get(last_params, "harsh_braking", 0),
      harsh_cornering |-> Get(last_params, "harsh_cornering", 0),
      idling_time |-> Get(last_params, "idling_time", 0),
      driver_id   |-> Get(last_params, "avl_driver", "0"),
      param_count |-> Cardinality(DOMAIN last_params) ]

\* The try block over a last message: whether an exception is raised
\* before unit_info.update is reached.  A "pos" or "p" that is null has no
\* .get; an absent one defaults to {}.
MessageRaises(last_msg) ==
    \/ ~ValidTimestamp(Get(last_msg, "t", JNum(0)))
    \/ Get(last_msg, "pos", Some(EmptyDict)) = None
    \/ Get(last_msg, "p", Some(EmptyDict)) = None

\* unit_info.update({...}): all five keys in one call
update_unit_info(unit_info, last_msg) ==
    LET last_time == Get(last_msg, "t", JNum(0)).num
        days      == days_ago(last_time)
        last_pos  == Get(last_msg, "pos", Some(EmptyDict))[1]
        last_params == Get(last_msg, "p", Some(EmptyDict))[1]
    IN  [unit_info EXCEPT
            !.last_message    = Some(last_time),
            !.days_inactive   = days,
            !.activity_status = activity_status(days),
            !.current_data    = current_data(last_pos, last_params)]

\* A turn that stores the time and the days as soon as they are computed,
\* before the reads that may raise.
process_last_message_piecewise(unit_info, last_msg) ==
    IF ~ValidTimestamp(Get(last_msg, "t", JNum(0))) THEN unit_info
    ELSE IF MessageRaises(last_msg)
         THEN [unit_info EXCEPT
                  !.last_message  = Some(Get(last_msg, "t", JNum(0)).num),
                  !.days_inactive = days_ago(Get(last_msg, "t", JNum(0)).num)]
    ELSE update_unit_info(unit_info, last_msg)

\* One turn of the loop over the units, given the last message in hand.
process_last_message(unit_info, last_msg) ==
    IF MessageRaises(last_msg) THEN unit_info
    ELSE update_unit_info(unit_info, last_msg)

\* "if not last_msg": None and the empty dict are falsy
Truthy(m) == m # None /\ DOMAIN m[1] # {}

\* The loop of get_fleet_with_enhanced_activity from unit i on; asked is,
\* unit by unit, the services the alternative lookup requested (history
\* only).
RECURSIVE fleet_loop(_, _, _, _, _)
fleet_loop(units, answers, i, sid, fleet) ==
    IF i > Len(units) THEN [fleet_data |-> fleet, sid |-> sid, asked |-> <<>>]
    ELSE
      LET unit == units[i]
          lmsg == Get(unit, "lmsg", None)
          alt  == IF Truthy(lmsg)
                  THEN [msg |-> lmsg, sid |-> sid, asked |-> <<>>]
                  ELSE get_unit_last_message_alternative(sid, answers[i])
          info == IF Truthy(alt.msg)
                  THEN process_last_message(unit_info_defaults(unit), alt.msg[1])
                  ELSE unit_info_defaults(unit)
          rest == fleet_loop(units, answers, i + 1, alt.sid, Append(fleet, info))
      IN  [rest EXCEPT !.asked = <<alt.asked>> \o @]

\* get_fleet_with_enhanced_activity against the backend b
get_fleet_with_enhanced_activity(sid, b) ==
    LET r == make_request(sid, b.search)
        units == IF r.result # None
                 THEN Get(r.result[1], "items", <<>>) ELSE <<>>
    IN  fleet_loop(units, b.answers, 1, r.sid, <<>>)

---------------------------------------------------------------------------
(* The environment: what the backend holds.                                *)

\* Ages of a last message, in hours, on both sides of every tier boundary
\* (1, 7 and 30 days), and one message stamped an hour ahead of the clock.
AgeHours == {-1, 12, 24, 47, 48, 191, 192, 743, 744}

PosSample == [y |-> 24, x |-> 54, s |-> 80, c |-> 90, sc |-> 9]

ParamsSample == [fuel_level |-> 75, pwr_ext |-> 12500, ignition |-> 1,
                 harsh_braking |-> 2]

\* A well-formed message of the given age when the program starts.
Msg(age) ==
    [t |-> JNum(NowStart - age), pos |-> Some(PosSample),
     p |-> Some(ParamsSample)]

\* Messages whose processing raises, and two sparse ones that are fine.
MalformedMsgs ==
    { [t |-> JStr("n/a"), pos |-> Some(PosSample), p |-> Some(ParamsSample)],
      [t |-> JNum(NowStart - 12), pos |-> None, p |-> Some(ParamsSample)],
      [t |-> JNum(NowStart - 12), pos |-> Some(PosSample), p |-> None] }

SparseMsgs ==
    { [t |-> JNum(NowStart - 12)],
      [pos |-> Some(PosSample), p |-> Some(EmptyDict)] }

NoAnswers == [load_last |-> RespRaise, load_interval |-> RespRaise]

\* What messages/load_last and messages/load_interval may answer.
LoadLastAnswers ==
    { RespRaise,
      RespJson([error |-> 1]),
      RespJson([messages |-> <<>>]),
      RespJson([messages |-> <<Msg(12)>>]) }

LoadIntervalAnswers ==
    { RespJson([error |-> 4]),
      RespJson([count |-> 0]),
      RespJson([messages |-> <<Msg(23), Msg(2)>>]) }

\* Unit i of the backend with the lookups' answers for it: a unit that
\* carries its last message, or one that does not and leaves it to the
\* alternative lookups.
UnitWith(i, m) == [id |-> i, nm |-> UnitNames[i], lmsg |-> Some(m)]

UnitWithout(i) == [id |-> i, nm |-> UnitNames[i]]

UnitSlots(i, msgs, lasts, intervals) ==
    {[unit |-> UnitWith(i, m), answers |-> NoAnswers] : m \in msgs}
    \cup {[unit |-> UnitWithout(i),
           answers |-> [load_last |-> a, load_interval |-> b]] :
            a \in lasts, b \in intervals}

RECURSIVE SlotLists(_, _, _, _)
SlotLists(n, msgs, lasts, intervals) ==
    IF n = 0 THEN {<<>>}
    ELSE {Append(f, x) : f \in SlotLists(n - 1, msgs, lasts, intervals),
                         x \in UnitSlots(n, msgs, lasts, intervals)}

Items(slots) == [i \in 1..Len(slots) |-> slots[i].unit]

Answers(slots) == [i \in 1..Len(slots) |-> slots[i].answers]

\* The backends with n units drawn from the given samples, plus those whose
\* core/search_items fails or carries no "items".
Backends(msgs, lasts, intervals) ==
    {[search |-> RespJson([items |-> Items(f)]), answers |-> Answers(f)] :
        f \in UNION {SlotLists(n, msgs, lasts, intervals) : n \in 0..MaxUnits}}
    \cup {[search |-> r, answers |-> <<>>] :
            r \in {RespRaise, RespJson([error |-> 1]), RespJson([error |-> 4]),
                   RespJson([count |-> 0])}}

FleetBackends ==
    Backends({Msg(a) : a \in AgeHours} \cup MalformedMsgs \cup SparseMsgs,
             LoadLastAnswers, LoadIntervalAnswers)

\* The fleets the dashboard is run against: a fresh unit beside one with
\* no message anywhere; a unit whose message is malformed beside a stale
\* one; a unit stamped ahead of the clock, an active one and a sparse one;
\* a session that expires during the alternative lookup; no unit at all;
\* and a search that fails.
SlotWith(i, m) == [unit |-> UnitWith(i, m), answers |-> NoAnswers]

SlotWithout(i, a, b) ==
    [unit |-> UnitWithout(i), answers |-> [load_last |-> a, load_interval |-> b]]

BackendOf(slots) ==
    [search |-> RespJson([items |-> Items(slots)]), answers |-> Answers(slots)]

AppBackends ==
    { BackendOf(<<SlotWith(1, Msg(12)),
                  SlotWithout(2, RespJson([messages |-> <<>>]),
                                 RespJson([count |-> 0]))>>),
      BackendOf(<<SlotWith(1, [t |-> JStr("n/a")]), SlotWith(2, Msg(744))>>),
      BackendOf(<<SlotWith(1, Msg(-1)), SlotWith(2, Msg(48))>>),
      BackendOf(<<SlotWithout(1, RespJson([error |-> 1]),
                                 RespJson([messages |-> <<Msg(2)>>]))>>),
      BackendOf(<<>>),
      [search |-> RespJson([error |-> 1]), answers |-> <<>>],
      [search |-> RespRaise, answers |-> <<>>] }

LoginAnswers ==
    {RespRaise, RespJson([error |-> 8]), RespJson([eid |-> "eid-1"])}

---------------------------------------------------------------------------
(* main: the "Process Fleet Data" handler.                                 *)

ReportTypes == {"daily", "weekly", "monthly"}

\* datetime.now().date(), as a day number
Today == now \div 24

\* What the two date pickers offer: max_value is today for both, and
\* nothing ties the start date to the end date.
Dates == (Today - MaxBack)..Today

\* str(date) inside the f-string
DateStr(d) == ToString(d)

report_period(start_date, end_date) ==
    DateStr(start_date) \o " to " \o DateStr(end_date)

processed_vehicle(vehicle, period_days, start_date, end_date, report_type) ==
    [ id              |-> vehicle.id,
      name            |-> vehicle.name,
      activity_status |-> vehicle.activity_status,
      days_inactive   |-> vehicle.days_inactive,
      current_data    |-> vehicle.current_data,
      metrics         |-> create_enhanced_metrics_from_real_data(vehicle, period_days),
      last_update     |-> Get(vehicle, "last_message", Some(now)),
      report_period   |-> report_period(start_date, end_date),
      report_type     |-> report_type ]

\* The loop over selected_vehicles.
process_fleet_data(selected_vehicles, start_date, end_date, report_type) ==
    LET period_days == calculate_period_days(start_date, end_date)
    IN  [i \in 1..Len(selected_vehicles) |->
            processed_vehicle(selected_vehicles[i], period_days,
                              start_date, end_date, report_type)]

\* selected_vehicles: the vehicles an activity filter keeps, or the ones
\* picked in the multiselect in the order they were picked: a list of
\* distinct vehicles of fleet_data.
Selections ==
    LET n == Len(fleet_data)
    IN  {sel \in UNION {[1..k -> 1..n] : k \in 1..n} :
            \A i, j \in DOMAIN sel : i # j => sel[i] # sel[j]}

Selected(sel) == [i \in DOMAIN sel |-> fleet_data[sel[i]]]

---------------------------------------------------------------------------
(* The dashboard.                                                          *)

\* What the sidebar can be set to.
Settings == [start_date : Dates, end_date : Dates, report_type : ReportTypes]

Init ==
    /\ hash_secret \in HashSecrets
    /\ fp_tie_up \in BOOLEAN
    /\ now = NowStart
    /\ session_id = None
    /\ connected = FALSE
    /\ fleet_data = <<>>
    /\ processed_data = <<>>
    /\ backend \in AppBackends
    /\ fetch = None
    /\ settings \in Settings
    /\ request = None
    /\ call = None
    /\ report = None

\* The units core/search_items hands to the loop (history only).
SearchedUnits(sid) ==
    LET r == make_request(sid, backend.search)
    IN  IF r.result # None THEN Get(r.result[1], "items", <<>>) ELSE <<>>

\* The "Connect to Wialon" button: login, then the fleet fetch.
Connect ==
    \E answer \in LoginAnswers :
        LET l == login(session_id, answer)
            f == get_fleet_with_enhanced_activity(l.sid, backend)
        IN  IF l.result # None
            THEN /\ connected' = TRUE
                 /\ session_id' = f.sid
                 /\ fleet_data' = f.fleet_data
                 /\ fetch' = Some([at |-> now, units |-> SearchedUnits(l.sid),
                                   asked |-> f.asked])
                 /\ UNCHANGED <<hash_secret, fp_tie_up, now, processed_data,
                                backend, settings, request, call, report>>
            ELSE /\ connected' = FALSE
                 /\ session_id' = l.sid
                 /\ UNCHANGED <<hash_secret, fp_tie_up, now, fleet_data,
                                processed_data, backend, fetch, settings,
                                request, call, report>>

\* The "Process Fleet Data" button, enabled when connected and something
\* is selected.  The script is run again at the end, and what an earlier
\* run had generated is no longer on the page.
ProcessFleetData ==
    /\ connected
    /\ \E sel \in Selections :
            /\ processed_data' =
                    process_fleet_data(Selected(sel), settings.start_date,
                                       settings.end_date, settings.report_type)
            /\ call' = Some([selected_vehicles |-> Selected(sel),
                             start_date  |-> settings.start_date,
                             end_date    |-> settings.end_date,
                             report_type |-> settings.report_type])
    /\ report' = None
    /\ UNCHANGED <<hash_secret, fp_tie_up, now, session_id, connected,
                   fleet_data, backend, fetch, settings, request>>

\* The server process is started again: a new hash secret, and the session
\* state of the old process is gone.
ProcessRestart ==
    /\ hash_secret' \in HashSecrets
    /\ session_id' = None
    /\ connected' = FALSE
    /\ fleet_data' = <<>>
    /\ processed_data' = <<>>
    /\ fetch' = None
    /\ call' = None
    /\ report' = None
    /\ UNCHANGED <<fp_tie_up, now, backend, settings, request>>

Next == Connect \/ ProcessFleetData \/ ProcessRestart

Spec == Init /\ [][Next]_vars

---------------------------------------------------------------------------
(* The service alone: login and the fleet fetch against every backend.     *)

InitFleet ==
    /\ hash_secret = 0
    /\ fp_tie_up = FALSE
    /\ now = NowStart
    /\ session_id = None
    /\ connected = FALSE
    /\ fleet_data = <<>>
    /\ processed_data = <<>>
    /\ backend \in FleetBackends
    /\ fetch = None
    /\ settings = None
    /\ request = None
    /\ call = None
    /\ report = None

Login ==
    /\ \E answer \in LoginAnswers :
            session_id' = login(session_id, answer).sid
    /\ UNCHANGED <<hash_secret, fp_tie_up, now, connected, fleet_data,
                   processed_data, backend, fetch, settings, request, call, report,
                   report>>

GetFleet ==
    /\ fleet_data' = get_fleet_with_enhanced_activity(session_id, backend).fleet_data
    /\ session_id' = get_fleet_with_enhanced_activity(session_id, backend).sid
    /\ fetch' = Some([at |-> now, units |-> SearchedUnits(session_id),
                      asked |-> get_fleet_with_enhanced_activity(
                                    session_id, backend).asked])
    /\ UNCHANGED <<hash_secret, fp_tie_up, now, connected, processed_data,
                   backend, settings, request, call, report>>

Tick ==
    /\ now < NowStart + MaxTicks
    /\ now' = now + 1
    /\ UNCHANGED <<hash_secret, fp_tie_up, session_id, connected, fleet_data,
                   processed_data, backend, fetch, settings, request, call, report,
                   report>>

NextFleet == Login \/ GetFleet \/ Tick

SpecFleet == InitFleet /\ [][NextFleet]_vars

---------------------------------------------------------------------------
(* The synthesizer alone, called on every record the fleet fetch can       *)
(* build, in one process after another.                                    *)

\* The records get_fleet_with_enhanced_activity builds, one unit at a time.
SynthVehicles ==
    {fleet_loop(<<x.unit>>, <<x.answers>>, 1, Some("eid-1"), <<>>).fleet_data[1] :
        x \in UNION {UnitSlots(i, {Msg(a) : a \in AgeHours} \cup MalformedMsgs
                                    \cup SparseMsgs,
                               {RespRaise}, {RespJson([count |-> 0])}) :
                        i \in 1..MaxUnits}}

Periods == (-MinPeriod)..MaxPeriod

InitSynth ==
    /\ hash_secret \in HashSecrets
    /\ fp_tie_up \in BOOLEAN
    /\ now = NowStart
    /\ session_id = None
    /\ connected = FALSE
    /\ fleet_data = <<>>
    /\ processed_data = <<>>
    /\ backend = BackendOf(<<>>)
    /\ fetch = None
    /\ settings = None
    /\ request \in {Some([vehicle_data |-> v, period_days |-> p]) :
                        v \in SynthVehicles, p \in Periods}
    /\ call = None
    /\ report = None

\* create_enhanced_metrics_from_real_data(vehicle_data, period_days) is
\* called; name_hash is the local of that name, and before is what the
\* call before this one (on the same vehicle_data) was asked and returned,
\* kept when that call computed the same name_hash.
SynthCall ==
    /\ call' = Some([vehicle_data |-> request[1].vehicle_data,
                     period_days  |-> request[1].period_days,
                     name_hash    |-> name_hash(request[1].vehicle_data),
                     metrics      |-> create_enhanced_metrics_from_real_data(
                                          request[1].vehicle_data,
                                          request[1].period_days),
                     before       |->
                         IF call = None THEN None
                         ELSE IF call[1].name_hash
                                     # name_hash(request[1].vehicle_data)
                                 THEN None
                         ELSE Some([period_days    |-> call[1].period_days,
                                    total_distance |->
                                        call[1].metrics.total_distance])])
    /\ UNCHANGED <<hash_secret, fp_tie_up, now, session_id, connected,
                   fleet_data, processed_data, backend, fetch, settings,
                   request, report>>

\* The next call asks for a longer period.
LongerPeriod ==
    /\ request[1].period_days < MaxPeriod
    /\ request' = Some([request[1] EXCEPT !.period_days = @ + 1])
    /\ UNCHANGED <<hash_secret, fp_tie_up, now, session_id, connected,
                   fleet_data, processed_data, backend, fetch, settings, call,
                   report>>

\* The interpreter is started again and draws its hash secret.
NewProcess ==
    /\ hash_secret' \in HashSecrets
    /\ UNCHANGED <<fp_tie_up, now, session_id, connected, fleet_data,
                   processed_data, backend, fetch, settings, request, call, report,
                   report>>

NextSynth == SynthCall \/ LongerPeriod \/ NewProcess

SpecSynth == InitSynth /\ [][NextSynth]_vars

---------------------------------------------------------------------------
(* Properties of the synthesizer, under SpecSynth.                         *)

\* C1: metric synthesis is deterministic: a call with the arguments of an
\* earlier call returns the record the earlier call returned, in every
\* field, whichever process makes it and whenever.
C1_Deterministic ==
    call # None =>
        create_enhanced_metrics_from_real_data(call[1].vehicle_data,
                                               call[1].period_days)
            = call[1].metrics

\* C2: in every record the synthesizer returns, total_harsh_events is the
\* sum of harsh_acceleration, harsh_braking and harsh_cornering.
C2_HarshTotal ==
    call # None =>
        LET m == call[1].metrics
        IN  m.total_harsh_events
                = m.harsh_acceleration + m.harsh_braking + m.harsh_cornering

\* A call that returned harsh events of all three kinds.
C2_Witness ==
    /\ call # None
    /\ call[1].metrics.harsh_acceleration > 0
    /\ call[1].metrics.harsh_cornering > 0
    /\ call[1].metrics.total_harsh_events > call[1].metrics.harsh_cornering

\* |co2_emission - fuel_consumption * 2.31| of a record, in units of 1e-4
\* (both fields are hundredths).
Co2Gap(m) ==
    Max(100 * m.co2_emission - 231 * m.fuel_consumption,
        231 * m.fuel_consumption - 100 * m.co2_emission)

\* C3, as claimed: in every record returned, the co2_emission and
\* fuel_consumption placed in it satisfy
\* abs(co2_emission - fuel_consumption * 2.31) < 1e-6.
C3_Co2Exact ==
    call # None => 100 * Co2Gap(call[1].metrics) < 1

\* C3, amended: abs(co2_emission - fuel_consumption * 2.31) is at most
\* 0.005 + 2.31 * 0.005 = 0.01655, what the two roundings to 2 decimals
\* allow.
C3_Co2WithinRounding ==
    call # None => 2 * Co2Gap(call[1].metrics) <= 331

\* A call whose co2_emission is more than 0.01 off 2.31 times the rounded
\* fuel_consumption.
C3_Witness ==
    /\ call # None
    /\ call[1].metrics.fuel_consumption > 0
    /\ Co2Gap(call[1].metrics) > 100

\* C4: in every record returned, engine_hours is driving_hours * 1.3 and
\* idling_hours is engine_hours * 0.2 within the tolerance of the rounding
\* of the fields to 2 decimals: half a unit of the last place of the field
\* itself plus that of the field it is derived from, scaled by the factor
\* (0.005 + 1.3 * 0.005 and 0.005 + 0.2 * 0.005).
C4_HoursWithinRounding ==
    call # None =>
        LET m == call[1].metrics
        IN  /\ 2 * (10 * m.engine_hours - 13 * m.driving_hours) <= 23
            /\ 2 * (13 * m.driving_hours - 10 * m.engine_hours) <= 23
            /\ 10 * m.idling_hours - 2 * m.engine_hours <= 6
            /\ 2 * m.engine_hours - 10 * m.idling_hours <= 6

\* A call with more than an hour of driving whose engine_hours is not
\* exactly 1.3 times the rounded driving_hours.
C4_Witness ==
    /\ call # None
    /\ call[1].metrics.driving_hours > 100
    /\ 10 * call[1].metrics.engine_hours # 13 * call[1].metrics.driving_hours
    /\ 10 * call[1].metrics.idling_hours # 2 * call[1].metrics.engine_hours

\* C10: for a fixed vehicle (the same record, the same name hash, hence the
\* same tier), total_distance is monotone in period_days: a call with
\* positive p1 followed by one with p2 >= p1 returns a total_distance that
\* is not smaller.
C10_DistanceMonotone ==
    (call # None /\ call[1].before # None) =>
        LET b == call[1].before[1]
        IN  (/\ 1 <= b.period_days
             /\ b.period_days <= call[1].period_days)
            => b.total_distance <= call[1].metrics.total_distance

\* Two calls for the same vehicle in one process, the second for a longer
\* period, the second distance larger.
C10_Witness ==
    /\ call # None
    /\ call[1].before # None
    /\ 1 <= call[1].before[1].period_days
    /\ call[1].before[1].period_days < call[1].period_days
    /\ call[1].before[1].total_distance < call[1].metrics.total_distance

---------------------------------------------------------------------------
(* Properties of the fleet fetch, under SpecFleet.                         *)

\* The four fields a last message fills, still as the defaults left them.
KeepsDefaults(v) ==
    /\ v.last_message = None
    /\ v.days_inactive = 999
    /\ v.activity_status = "Unknown"
    /\ v.current_data = EmptyDict

\* The tier the days of inactivity stand for.
TierOf(days) ==
    CASE days <= 1               -> "Very Active"
      [] 1 < days /\ days <= 7   -> "Active"
      [] 7 < days /\ days <= 30  -> "Somewhat Active"
      [] OTHER                   -> "Inactive"

\* C5: for a vehicle whose last message is not ahead of the clock,
\* days_inactive is the time elapsed between the message and the fetch in
\* whole days, truncated, and the tier is Very Active up to 1 day, Active
\* up to 7, Somewhat Active up to 30 and Inactive beyond.
C5_Classification ==
    fetch # None =>
        \A i \in DOMAIN fleet_data :
            LET v == fleet_data[i]
            IN  (v.last_message # None /\ v.last_message[1] <= fetch[1].at) =>
                    /\ 0 <= v.days_inactive
                    /\ 24 * v.days_inactive <= fetch[1].at - v.last_message[1]
                    /\ fetch[1].at - v.last_message[1] < 24 * (v.days_inactive + 1)
                    /\ v.activity_status = TierOf(v.days_inactive)

\* A fleet with a vehicle exactly on a boundary (7 days, Active) and one
\* just past another (2 days, 48 hours or more, Active).
C5_Witness ==
    /\ fetch # None
    /\ \E i \in DOMAIN fleet_data :
            /\ fleet_data[i].days_inactive = 7
            /\ fleet_data[i].activity_status = "Active"
            /\ fetch[1].at - fleet_data[i].last_message[1] > 7 * 24
    /\ \E i \in DOMAIN fleet_data :
            /\ fleet_data[i].days_inactive = 1
            /\ fleet_data[i].activity_status = "Very Active"

\* C7: days_inactive is never negative; a last message stamped after the
\* clock of the fetch gives days_inactive = 0.
C7_NeverNegative ==
    fetch # None =>
        \A i \in DOMAIN fleet_data :
            /\ fleet_data[i].days_inactive >= 0
            /\ (/\ fleet_data[i].last_message # None
                /\ fleet_data[i].last_message[1] > fetch[1].at)
               => fleet_data[i].days_inactive = 0

\* Processing the message raises: a "t" that is not a timestamp, or a
\* "pos" or "p" that is null.
Unprocessable(m) ==
    \/ "t" \in DOMAIN m /\ "num" \notin DOMAIN m.t
    \/ "pos" \in DOMAIN m /\ m.pos = None
    \/ "p" \in DOMAIN m /\ m.p = None

\* C9: the fetch returns one record per unit of the search, in the order
\* of the search; a unit whose last message cannot be processed keeps all
\* its defaults and the units after it are processed as usual; no record
\* is ever updated in part.
C9_FailureIsolation ==
    fetch # None =>
        /\ Len(fleet_data) = Len(fetch[1].units)
        /\ \A i \in DOMAIN fleet_data :
            LET v == fleet_data[i]
                u == fetch[1].units[i]
            IN  /\ v.raw_unit_data = u
                /\ v.id = u.id
                /\ v.name = u.nm
                /\ ("lmsg" \in DOMAIN u /\ Unprocessable(u.lmsg[1]))
                        => KeepsDefaults(v)
                /\ \/ KeepsDefaults(v)
                   \/ /\ v.last_message # None
                      /\ v.days_inactive # 999
                      /\ v.activity_status # "Unknown"
                      /\ v.current_data # EmptyDict

\* A fleet whose first unit carries an unprocessable message and whose
\* second unit was processed all the same.
C9_Witness ==
    /\ fetch # None
    /\ Len(fleet_data) = 2
    /\ "lmsg" \in DOMAIN fetch[1].units[1]
    /\ Unprocessable(fetch[1].units[1].lmsg[1])
    /\ KeepsDefaults(fleet_data[1])
    /\ fleet_data[2].last_message # None
    /\ fleet_data[2].activity_status = "Very Active"

---------------------------------------------------------------------------
(* Properties of the dashboard, under Spec.                                *)

\* What an answer of the backend offers as messages.
CarriesMessages(resp) ==
    /\ resp.kind = "json"
    /\ "messages" \in DOMAIN resp.body
    /\ resp.body.messages # <<>>

\* Unit i of the last search carries no last message, and neither lookup
\* of the backend has one for it.
NoLastMessage(i) ==
    /\ "lmsg" \notin DOMAIN fetch[1].units[i]
    /\ ~CarriesMessages(backend.answers[i].load_last)
    /\ ~CarriesMessages(backend.answers[i].load_interval)

\* The distance, in hundredths of a km, of a vehicle of that name over the
\* period at the activity factor 0.2.
InactiveDistance(name, period_days) ==
    20 * (50 + ((PyHash(name) % 1000) % 100)) * period_days

C8_PeriodPositive ==
    \A j \in DOMAIN processed_data :
        processed_data[j].metrics.period_days > 0

---------------------------------------------------------------------------
(* More properties of the synthesizer, under SpecSynth.                    *)

\* The activity factor of a tier, in hundredths.
TierFactor(tier) ==
    CASE tier = "Very Active"     -> 100
      [] tier = "Active"          -> 80
      [] tier = "Somewhat Active" -> 50
      [] tier = "Inactive"        -> 20

\* C11: for every vehicle and positive period_days, total_distance is
\* (50 + seed mod 100) * period_days * activity_factor rounded to 2
\* decimals, the seed being the name hash of the call and the factor 1.0,
\* 0.8, 0.5, 0.2 by the tier of days_inactive; a vehicle without a last
\* message (days_inactive 999) gets the factor 0.2.
C11_TotalDistance ==
    (call # None /\ call[1].period_days >= 1) =>
        /\ call[1].metrics.total_distance
              = (50 + (call[1].name_hash % 100)) * call[1].period_days
                    * TierFactor(TierOf(call[1].vehicle_data.days_inactive))
        /\ call[1].vehicle_data.last_message = None =>
              call[1].metrics.total_distance
                  = (50 + (call[1].name_hash % 100)) * call[1].period_days * 20

\* A call for a vehicle without a last message over the longest period,
\* after one for a vehicle of another tier.
C11_Witness ==
    /\ call # None
    /\ call[1].period_days = MaxPeriod
    /\ call[1].vehicle_data.last_message = None
    /\ call[1].vehicle_data.days_inactive = 999
    /\ call[1].metrics.total_distance > 0

\* What the snapshot of the vehicle reports under the key, 0 when it
\* reports nothing.
Reported(vehicle_data, key) ==
    Get(Get(vehicle_data, "current_data", EmptyDict), key, 0)

\* C12: fuel_level (power_voltage) of the metrics is the value the
\* snapshot reports when that is present and not zero, and the default
\* 50 + seed mod 40 (12000 + seed mod 1000) when it is absent or zero.
C12_SnapshotOrDefault ==
    call # None =>
        LET v == call[1].vehicle_data
            m == call[1].metrics
            h == call[1].name_hash
        IN  /\ Reported(v, "fuel_level") # 0
                  => m.fuel_level = Reported(v, "fuel_level")
            /\ Reported(v, "fuel_level") = 0
                  => m.fuel_level = 50 + (h % 40)
            /\ Reported(v, "power_voltage") # 0
                  => m.power_voltage = Reported(v, "power_voltage")
            /\ Reported(v, "power_voltage") = 0
                  => m.power_voltage = 12000 + (h % 1000)

\* The utilization factor of a tier, in tenths.
TierUtilization(tier) ==
    CASE tier = "Very Active"     -> 10
      [] tier = "Active"          -> 7
      [] tier = "Somewhat Active" -> 4
      [] tier = "Inactive"        -> 1

\* C13: the record the synthesizer returns carries the utilization_factor
\* chosen from the tier (1.0, 0.7, 0.4, 0.1).
C13_UtilizationRetained ==
    call # None =>
        /\ "utilization_factor" \in DOMAIN call[1].metrics
        /\ 10 * call[1].metrics.utilization_factor.n
              = TierUtilization(TierOf(call[1].vehicle_data.days_inactive))
                    * call[1].metrics.utilization_factor.d

---------------------------------------------------------------------------
(* The report templates: generate_ptt_driver_template and                  *)
(* generate_ptt_vehicle_template.                                          *)
(*                                                                         *)
(* A worksheet is its name, its merged ranges and the writes made to it,   *)
(* in order; its cells are a function from <<row, col>> (both from 0) to   *)
(* the value and the format written there, a later write to a cell         *)
(* replacing an earlier one.  A cell value is a str, Text(s), or an int or *)
(* float, Number(a) with a the exact rational.                             *)

Text(s) == [str |-> s]

Number(a) == [num |-> a]

\* The float a field rounded to 2 decimals holds.
Hundredths(x) == Rat(x, 100)

\* isinstance(value, (int, float))
IsNumber(value) == "num" \in DOMAIN value

\* workbook.add_format({...})
title_format ==
    [bold |-> TRUE, font_size |-> 16, align |-> "center",
     valign |-> "vcenter", bg_color |-> "#D9E1F2", border |-> 1]

header_format ==
    [bold |-> TRUE, font_size |-> 10, align |-> "center",
     valign |-> "vcenter", bg_color |-> "#B4C6E7", border |-> 1,
     text_wrap |-> TRUE]

data_format ==
    [align |-> "center", valign |-> "vcenter", border |-> 1, font_size |-> 9]

number_format ==
    [align |-> "center", valign |-> "vcenter", border |-> 1,
     num_format |-> "#,##0.00", font_size |-> 9]

\* worksheet.write(row, col, value, format)
write(cells, row, col, value, format) ==
    Append(cells, [row |-> row, col |-> col, value |-> value,
                   format |-> format])

\* The cells of a worksheet after the given writes.
cells_of(writes) ==
    [x \in {<<writes[k].row, writes[k].col>> : k \in DOMAIN writes} |->
        LET at   == {k \in DOMAIN writes :
                        <<writes[k].row, writes[k].col>> = x}
            last == CHOOSE k \in at : \A j \in at : j <= k
        IN  [value |-> writes[last].value, format |-> writes[last].format]]

\* for col, value in enumerate(values): worksheet.write(row, col, value, format)
write_headers(cells, row, values, format) ==
    cells \o [k \in 1..Len(values) |->
                [row |-> row, col |-> k - 1, value |-> Text(values[k]),
                 format |-> format]]

\* report_type.upper()
Upper(s) ==
    CASE s = "daily"   -> "DAILY"
      [] s = "weekly"  -> "WEEKLY"
      [] s = "monthly" -> "MONTHLY"

\* brackets that all take an eighth
speeding_brackets_flat(total_violations) ==
    [k \in 1..8 |-> Number(RatInt(Max(0, total_violations \div 8)))]

\* The eight speeding brackets of a row.
speeding_brackets(total_violations) ==
    << Number(RatInt(Max(0, total_violations \div 8))),
       Number(RatInt(Max(0, total_violations \div 6))),
       Number(RatInt(Max(0, total_violations \div 4))),
       Number(RatInt(Max(0, total_violations \div 3))),
       Number(RatInt(Max(0, total_violations \div 2))),
       Number(RatInt(Max(0, total_violations \div 2))),
       Number(RatInt(Max(0, total_violations))),
       Number(RatInt(Max(0, total_violations))) >>

\* total_distance / 1000 if total_distance > 0 else 0
distance_in_thousands(metrics) ==
    IF Get(metrics, "total_distance", 0) > 0
    THEN Number(RatDiv(Hundredths(Get(metrics, "total_distance", 0)), 1000))
    ELSE Number(RatInt(0))

driver_headers_row1 ==
    <<"DRIVER'S ASSIGNMENT", "DRIVER'S NAME", "Raw", "Raw", "Raw", "Raw",
      "TOTAL DISTANCE(KM)", "", "TOTAL DRIVING HOURS", "", "Idling", "",
      "ENGINE HOURS", "", "", "SPEEDING DURATION",
      "OVERSPEEDING VIOLATION", "", "", "", "", "", "", "", "",
      "HARSH\nACCELERATION", "HARSH\nBRAKING", "HARSH\nTURNING", "TOTAL",
      "Date", "Action Taken", "Signature">>

driver_headers_row2 ==
    <<"", "", "Mileage", "Driving Hours", "Idling Duration",
      "Engine Hours", "", "", "", "", "Duration", "", "", "", "", "", "15",
      "35", "45", "55", "60", "65", "75", "80", "Total", "", "", "", "",
      "", "", "">>

\* row_data of the Driver Performance template
driver_row_data(vehicle, date_range) ==
    LET metrics == vehicle.metrics
        total_violations == Get(metrics, "speeding_violations", 0)
    IN  << Text("PTT TANKER DRIVERS"),
           Text("Driver - " \o vehicle.name),
           Number(Hundredths(Get(metrics, "total_distance", 0))),
           Number(Hundredths(Get(metrics, "driving_hours", 0))),
           Number(Hundredths(Get(metrics, "idling_hours", 0))),
           Number(Hundredths(Get(metrics, "engine_hours", 0))),
           Number(Hundredths(Get(metrics, "total_distance", 0))),
           distance_in_thousands(metrics),
           Number(Hundredths(Get(metrics, "driving_hours", 0))),
           Text(""),
           Number(Hundredths(Get(metrics, "idling_hours", 0))),
           Text(""),
           Number(Hundredths(Get(metrics, "engine_hours", 0))),
           Text(""),
           Text(""),
           Number(RatInt(0)) >>
        \o speeding_brackets(total_violations)
        \o << Number(RatInt(total_violations)),
              Number(RatInt(Get(metrics, "harsh_acceleration", 0))),
              Number(RatInt(Get(metrics, "harsh_braking", 0))),
              Number(RatInt(Get(metrics, "harsh_cornering", 0))),
              Number(RatInt(Get(metrics, "total_harsh_events", 0))),
              Text(date_range.to),
              Text(""),
              Text("") >>

\* every value written as plain text
driver_cell_format_plain(value, col) == data_format

\* The format a value of a Driver Performance data row is written with.
driver_cell_format(value, col) ==
    IF IsNumber(value) /\ col > 1 THEN number_format ELSE data_format

\* for col, value in enumerate(row_data): worksheet.write(row, col, ...)
driver_write_row(cells, row, row_data) ==
    cells \o [k \in 1..Len(row_data) |->
                [row |-> row, col |-> k - 1, value |-> row_data[k],
                 format |-> driver_cell_format(row_data[k], k - 1)]]

\* a loop that passes over the vehicles that did not move
RECURSIVE driver_data_rows_moving(_, _, _, _, _)
driver_data_rows_moving(cells, processed, i, row, date_range) ==
    IF i > Len(processed) THEN cells
    ELSE IF processed[i].metrics.total_distance = 0
         THEN driver_data_rows_moving(cells, processed, i + 1, row, date_range)
    ELSE driver_data_rows_moving(
            driver_write_row(cells, row,
                             driver_row_data(processed[i], date_range)),
            processed, i + 1, row + 1, date_range)

\* for vehicle in processed_data: ...; row += 1
RECURSIVE driver_data_rows(_, _, _, _, _)
driver_data_rows(cells, processed, i, row, date_range) ==
    IF i > Len(processed) THEN cells
    ELSE driver_data_rows(
            driver_write_row(cells, row,
                             driver_row_data(processed[i], date_range)),
            processed, i + 1, row + 1, date_range)

\* The worksheet "Driver Performance" when the workbook is closed.
driver_worksheet(processed, date_range, report_type) ==
    LET title   == write(<<>>, 0, 1, Text("Driver's Performance Summary"),
                         title_format)
        period  == write(title, 3, 8, Text("Period: " \o Upper(report_type)),
                         header_format)
        i6      == write(period, 5, 8, Text("DATE FROM:"), header_format)
        j6      == write(i6, 5, 9, Text(date_range.from), data_format)
        u6      == write(j6, 5, 20, Text("DATE TO:"), header_format)
        v6      == write(u6, 5, 21, Text(date_range.to), data_format)
        row9    == write_headers(v6, 9, driver_headers_row1, header_format)
        row10   == write_headers(row9, 10, driver_headers_row2, header_format)
    IN  [ name   |-> "Driver Performance",
          merged |-> {<<0, 1, 0, 31>>, <<3, 8, 3, 11>>},
          writes |-> driver_data_rows(row10, processed, 1, 12, date_range) ]

\* fuel during driving
fuel_during_driving(metrics) ==
    Number(RatMul(Hundredths(Get(metrics, "fuel_consumption", 0)), Rat(6, 10)))

\* a share for idling that completes the driving share
fuel_during_idling_rest(metrics) ==
    Number(RatMul(Hundredths(Get(metrics, "fuel_consumption", 0)), Rat(4, 10)))

\* fuel during idling
fuel_during_idling(metrics) ==
    Number(RatMul(Hundredths(Get(metrics, "fuel_consumption", 0)), Rat(3, 10)))

vehicle_headers_row1 ==
    <<"Department", "Type", "Vehicle No.", "Raw", "Raw", "Raw", "Raw",
      "TOTAL DISTANCE(KM)", "", "TOTAL DRIVING HOURS", "", "Idling", "",
      "ENGINE HOURS", "", "", "SPEEDING DURATION",
      "OVERSPEEDING VIOLATION", "", "", "", "", "", "", "", "",
      "HARSH\nACCELERATION", "HARSH\nBRAKING", "HARSH\nTURNING", "TOTAL",
      "FUEL CONSUMPTION (LITRE)", "", "", "TOTAL CO2 EMISSION (KG)">>

vehicle_headers_row2 ==
    <<"", "", "", "Mileage", "Driving Hours", "Idling Duration",
      "Engine Hours", "", "", "", "", "Duration", "", "", "", "", "", "15",
      "35", "45", "55", "60", "65", "75", "80", "Total", "", "", "", "",
      "DRIVING HOURS", "IDLING DURATION", "ENGINE HOURS", "">>

\* row_data of the Vehicle Performance template
vehicle_row_data(vehicle) ==
    LET metrics == vehicle.metrics
        total_violations == Get(metrics, "speeding_violations", 0)
    IN  << Text("PTT TANKER"),
           Text("TANKER"),
           Text(vehicle.name),
           Number(Hundredths(Get(metrics, "total_distance", 0))),
           Number(Hundredths(Get(metrics, "driving_hours", 0))),
           Number(Hundredths(Get(metrics, "idling_hours", 0))),
           Number(Hundredths(Get(metrics, "engine_hours", 0))),
           Number(Hundredths(Get(metrics, "total_distance", 0))),
           distance_in_thousands(metrics),
           Number(Hundredths(Get(metrics, "driving_hours", 0))),
           Text(""),
           Number(Hundredths(Get(metrics, "idling_hours", 0))),
           Text(""),
           Number(Hundredths(Get(metrics, "engine_hours", 0))),
           Text(""),
           Text(""),
           Number(RatInt(0)) >>
        \o speeding_brackets(total_violations)
        \o << Number(RatInt(total_violations)),
              Number(RatInt(Get(metrics, "harsh_acceleration", 0))),
              Number(RatInt(Get(metrics, "harsh_braking", 0))),
              Number(RatInt(Get(metrics, "harsh_cornering", 0))),
              Number(RatInt(Get(metrics, "total_harsh_events", 0))),
              Number(Hundredths(Get(metrics, "fuel_consumption", 0))),
              fuel_during_driving(metrics),
              fuel_during_idling(metrics),
              Number(Hundredths(Get(metrics, "co2_emission", 0))) >>

\* The format a value of a Vehicle Performance data row is written with.
vehicle_cell_format(value, col) ==
    IF IsNumber(value) /\ col > 2 THEN number_format ELSE data_format

\* a row written from column 1 on
vehicle_write_row_shifted(cells, row, row_data) ==
    cells \o [k \in 1..Len(row_data) |->
                [row |-> row, col |-> k, value |-> row_data[k],
                 format |-> vehicle_cell_format(row_data[k], k)]]

\* for col, value in enumerate(row_data): worksheet.write(row, col, ...)
vehicle_write_row(cells, row, row_data) ==
    cells \o [k \in 1..Len(row_data) |->
                [row |-> row, col |-> k - 1, value |-> row_data[k],
                 format |-> vehicle_cell_format(row_data[k], k - 1)]]

\* for vehicle in processed_data: ...; row += 1

RECURSIVE vehicle_data_rows(_, _, _, _)
vehicle_data_rows(cells, processed, i, row) ==
    IF i > Len(processed) THEN cells
    ELSE vehicle_data_rows(
            vehicle_write_row(cells, row, vehicle_row_data(processed[i])),
            processed, i + 1, row + 1)

\* The worksheet "Vehicle Performance" when the workbook is closed.
vehicle_worksheet(processed, date_range, report_type) ==
    LET title   == write(<<>>, 0, 2, Text("Vehicle Performance Summary"),
                         title_format)
        j5      == write(title, 4, 9, Text("DATE FROM:"), header_format)
        k5      == write(j5, 4, 10, Text(date_range.from), data_format)
        v5      == write(k5, 4, 21, Text("DATE TO:"), header_format)
        w5      == write(v5, 4, 22, Text(date_range.to), data_format)
        row7    == write_headers(w5, 7, vehicle_headers_row1, header_format)
        row8    == write_headers(row7, 8, vehicle_headers_row2, header_format)
    IN  [ name   |-> "Vehicle Performance",
          merged |-> {<<0, 2, 0, 33>>},
          writes |-> vehicle_data_rows(row8, processed, 1, 10) ]

\* a generator that takes the vehicles off the list it is given
generate_ptt_driver_template_consuming(processed, date_range, report_type) ==
    [ output         |-> driver_worksheet(processed, date_range, report_type),
      processed_data |-> <<>>,
      date_range     |-> date_range ]

\* generate_ptt_driver_template: the document returned, and the arguments
\* as the call leaves them.
generate_ptt_driver_template(processed, date_range, report_type) ==
    [ output         |-> driver_worksheet(processed, date_range, report_type),
      processed_data |-> processed,
      date_range     |-> date_range ]

\* generate_ptt_vehicle_template, likewise
generate_ptt_vehicle_template(processed, date_range, report_type) ==
    [ output         |-> vehicle_worksheet(processed, date_range, report_type),
      processed_data |-> processed,
      date_range     |-> date_range ]

---------------------------------------------------------------------------
(* The dashboard with its report tab: connect, process, generate.          *)

\* The sidebar settings the reports are generated under: a day, a week,
\* a month and forty days up to today, and two ranges that end before
\* they start.
ReportSettings ==
    { [start_date |-> Today,      end_date |-> Today, report_type |-> "daily"],
      [start_date |-> Today - 6,  end_date |-> Today, report_type |-> "weekly"],
      [start_date |-> Today - 29, end_date |-> Today, report_type |-> "monthly"],
      [start_date |-> Today - 39, end_date |-> Today, report_type |-> "monthly"],
      [start_date |-> Today, end_date |-> Today - 1, report_type |-> "daily"],
      [start_date |-> Today, end_date |-> Today - 2, report_type |-> "weekly"] }

\* The fleets reports are generated for: three units, one of them without
\* any message, and a unit with a malformed message beside a stale one.
ReportBackends ==
    { BackendOf(<<SlotWith(1, Msg(48)), SlotWith(2, Msg(12)),
                  SlotWithout(3, RespJson([messages |-> <<>>]),
                                 RespJson([count |-> 0]))>>),
      BackendOf(<<SlotWith(1, [t |-> JStr("n/a")]), SlotWith(2, Msg(744))>>) }

\* What str(date) can be for the dates in use.
DateStrs ==
    {DateStr(x.start_date) : x \in ReportSettings}
        \cup {DateStr(x.end_date) : x \in ReportSettings}

\* report_period.split(' to '): the pieces around the separator; str(date)
\* does not contain it.
split_report_period(period) ==
    CHOOSE parts \in DateStrs \X DateStrs :
        period = parts[1] \o " to " \o parts[2]

\* date_range, as both report buttons build it
date_range_of(processed) ==
    [ from |-> split_report_period(processed[1].report_period)[1],
      to   |-> split_report_period(processed[1].report_period)[2] ]

InitReport ==
    /\ hash_secret \in HashSecrets
    /\ fp_tie_up \in BOOLEAN
    /\ now = NowStart
    /\ session_id = None
    /\ connected = FALSE
    /\ fleet_data = <<>>
    /\ processed_data = <<>>
    /\ backend \in ReportBackends
    /\ fetch = None
    /\ settings \in ReportSettings
    /\ request = None
    /\ call = None
    /\ report = None

\* The "Generate PTT Driver Performance Report" button of the report tab,
\* shown when connected and processed_data is not empty.
GenerateDriverReport ==
    /\ connected
    /\ processed_data # <<>>
    /\ LET date_range  == date_range_of(processed_data)
           report_type == processed_data[1].report_type
           r == generate_ptt_driver_template(processed_data, date_range,
                                             report_type)
       IN  /\ report' = Some([ template   |-> "driver",
                               given      |-> [processed_data |-> processed_data,
                                               date_range     |-> date_range,
                                               report_type    |-> report_type],
                               date_range |-> r.date_range,
                               output     |-> r.output ])
           /\ processed_data' = r.processed_data
    /\ UNCHANGED <<hash_secret, fp_tie_up, now, session_id, connected,
                   fleet_data, backend, fetch, settings, request, call>>

\* The "Generate PTT Vehicle Performance Report" button.
GenerateVehicleReport ==
    /\ connected
    /\ processed_data # <<>>
    /\ LET date_range  == date_range_of(processed_data)
           report_type == processed_data[1].report_type
           r == generate_ptt_vehicle_template(processed_data, date_range,
                                              report_type)
       IN  /\ report' = Some([ template   |-> "vehicle",
                               given      |-> [processed_data |-> processed_data,
                                               date_range     |-> date_range,
                                               report_type    |-> report_type],
                               date_range |-> r.date_range,
                               output     |-> r.output ])
           /\ processed_data' = r.processed_data
    /\ UNCHANGED <<hash_secret, fp_tie_up, now, session_id, connected,
                   fleet_data, backend, fetch, settings, request, call>>

NextReport ==
    Connect \/ ProcessFleetData \/ GenerateDriverReport \/ GenerateVehicleReport

SpecReport == InitReport /\ [][NextReport]_vars

---------------------------------------------------------------------------
(* Properties of the report templates, under SpecReport.                   *)

\* A report of the template has been generated in this run.
Generated(template) == report # None /\ report[1].template = template

\* The cells of the generated worksheet.
ReportCells == cells_of(report[1].output.writes)

\* The vehicles the generator was given.
Rendered == report[1].given.processed_data

\* The rows written from the given row on, and the columns written in a row.
RowsFrom(cells, start) == {x[1] : x \in {y \in DOMAIN cells : y[1] >= start}}

ColsOf(cells, row) == {x[2] : x \in {y \in DOMAIN cells : y[1] = row}}

\* C14, as claimed: n vehicles rendered into the Vehicle Performance
\* template give data rows 10 .. 10+n-1, each with exactly 33 cells, at
\* columns 0 to 32.
C14_VehicleRows33 ==
    Generated("vehicle") =>
        /\ RowsFrom(ReportCells, 9) = 10..(10 + Len(Rendered) - 1)
        /\ \A r \in RowsFrom(ReportCells, 9) : ColsOf(ReportCells, r) = 0..32

\* C14, amended: n vehicles rendered into the Vehicle Performance template
\* give data rows 10 .. 10+n-1 (10, 11, 12 for n = 3), each with exactly
\* 34 cells written, at columns 0 to 33.
C14_VehicleRows34 ==
    Generated("vehicle") =>
        /\ RowsFrom(ReportCells, 9) = 10..(10 + Len(Rendered) - 1)
        /\ \A r \in RowsFrom(ReportCells, 9) : ColsOf(ReportCells, r) = 0..33

\* A Vehicle Performance report of three vehicles, rows 10, 11 and 12.
C14_Witness ==
    /\ Generated("vehicle")
    /\ Len(Rendered) = 3
    /\ RowsFrom(ReportCells, 9) = {10, 11, 12}
    /\ <<12, 33>> \in DOMAIN ReportCells

\* The columns of a Vehicle Performance data row from the speeding
\* duration on hold, starting at column first: 0, the eight brackets, the
\* total of violations, the three harsh counters and their total,
\* fuel_consumption, 0.6 and 0.3 of it, and co2_emission; the two fuel
\* shares sum to 0.9 * fuel_consumption.
VehicleTail(cells, r, m, first) ==
    LET v == m.speeding_violations
        val(c) == cells[<<r, c>>].value
    IN  /\ val(first) = Number(RatInt(0))
        /\ <<val(first + 1), val(first + 2), val(first + 3), val(first + 4),
             val(first + 5), val(first + 6), val(first + 7), val(first + 8)>>
             = <<Number(RatInt(v \div 8)), Number(RatInt(v \div 6)),
                 Number(RatInt(v \div 4)), Number(RatInt(v \div 3)),
                 Number(RatInt(v \div 2)), Number(RatInt(v \div 2)),
                 Number(RatInt(v)), Number(RatInt(v))>>
        /\ val(first + 9) = Number(RatInt(v))
        /\ val(first + 10) = Number(RatInt(m.harsh_acceleration))
        /\ val(first + 11) = Number(RatInt(m.harsh_braking))
        /\ val(first + 12) = Number(RatInt(m.harsh_cornering))
        /\ val(first + 13) = Number(RatInt(m.total_harsh_events))
        /\ val(first + 14) = Number(Rat(m.fuel_consumption, 100))
        /\ val(first + 15) = Number(Rat(6 * m.fuel_consumption, 1000))
        /\ val(first + 16) = Number(Rat(3 * m.fuel_consumption, 1000))
        /\ val(first + 17) = Number(Rat(m.co2_emission, 100))
        /\ val(first + 15).num.d = val(first + 16).num.d
        /\ 1000 * (val(first + 15).num.n + val(first + 16).num.n)
              = 9 * m.fuel_consumption * val(first + 15).num.d

\* C15, as claimed: in every Vehicle Performance data row column 15 is
\* the speeding duration (0), 16-23 the eight brackets, 24 the total of
\* violations, 25-27 the harsh counters, 28 their total, 29
\* fuel_consumption, 30 and 31 its 0.6 and 0.3 shares, 32 co2_emission.
C15_VehicleColumnsFrom15 ==
    Generated("vehicle") =>
        \A i \in DOMAIN Rendered :
            VehicleTail(ReportCells, 10 + i - 1, Rendered[i].metrics, 15)

\* C15, amended: the Vehicle Performance row has three label columns, so
\* column 16 is the speeding duration (0), 17-24 the eight brackets, 25
\* the total of violations, 26-28 the harsh counters, 29 their total, 30
\* fuel_consumption, 31 and 32 its 0.6 and 0.3 shares, 33 co2_emission;
\* the two fuel shares sum to 0.9 * fuel_consumption.
C15_VehicleColumnsFrom16 ==
    Generated("vehicle") =>
        \A i \in DOMAIN Rendered :
            VehicleTail(ReportCells, 10 + i - 1, Rendered[i].metrics, 16)

\* A Vehicle Performance report with a vehicle that has violations, harsh
\* events and fuel to show.
C15_Witness ==
    /\ Generated("vehicle")
    /\ \E i \in DOMAIN Rendered :
            /\ Rendered[i].metrics.speeding_violations >= 8
            /\ Rendered[i].metrics.harsh_cornering > 0
            /\ Rendered[i].metrics.fuel_consumption > 0
            /\ ReportCells[<<10 + i - 1, 33>>].value
                  = Number(Rat(Rendered[i].metrics.co2_emission, 100))

\* The value of a cell of the generated worksheet.
CellValue(r, c) == ReportCells[<<r, c>>].value

\* C16: in the Driver Performance template the header rows are rows 9 and
\* 10 and the data rows start at row 12; every data row has exactly 32
\* cells: 0 "PTT TANKER DRIVERS", 1 "Driver - {name}", 2-5 total_distance,
\* driving_hours, idling_hours, engine_hours, 6 total_distance, 7
\* total_distance / 1000 (0 when total_distance is 0), 8 driving_hours, 10
\* idling_hours, 12 engine_hours, 9, 11, 13 and 14 blank, 15 zero, 24
\* speeding_violations, 25-27 the harsh counters, 28 total_harsh_events,
\* 29 the end date of the date range, 30 and 31 blank.
C16_DriverLayout ==
    Generated("driver") =>
        /\ ColsOf(ReportCells, 9) = 0..31
        /\ ColsOf(ReportCells, 10) = 0..31
        /\ \A c \in 0..31 :
              /\ ReportCells[<<9, c>>].format = header_format
              /\ ReportCells[<<10, c>>].format = header_format
        /\ RowsFrom(ReportCells, 11) = 12..(12 + Len(Rendered) - 1)
        /\ \A i \in DOMAIN Rendered :
            LET r == 12 + i - 1
                m == Rendered[i].metrics
            IN  /\ ColsOf(ReportCells, r) = 0..31
                /\ CellValue(r, 0) = Text("PTT TANKER DRIVERS")
                /\ CellValue(r, 1) = Text("Driver - " \o Rendered[i].name)
                /\ CellValue(r, 2) = Number(Rat(m.total_distance, 100))
                /\ CellValue(r, 3) = Number(Rat(m.driving_hours, 100))
                /\ CellValue(r, 4) = Number(Rat(m.idling_hours, 100))
                /\ CellValue(r, 5) = Number(Rat(m.engine_hours, 100))
                /\ CellValue(r, 6) = Number(Rat(m.total_distance, 100))
                /\ m.total_distance # 0 =>
                      CellValue(r, 7) = Number(Rat(m.total_distance, 100000))
                /\ m.total_distance = 0 => CellValue(r, 7) = Number(RatInt(0))
                /\ CellValue(r, 8) = Number(Rat(m.driving_hours, 100))
                /\ CellValue(r, 10) = Number(Rat(m.idling_hours, 100))
                /\ CellValue(r, 12) = Number(Rat(m.engine_hours, 100))
                /\ \A c \in {9, 11, 13, 14, 30, 31} : CellValue(r, c) = Text("")
                /\ CellValue(r, 15) = Number(RatInt(0))
                /\ CellValue(r, 24) = Number(RatInt(m.speeding_violations))
                /\ CellValue(r, 25) = Number(RatInt(m.harsh_acceleration))
                /\ CellValue(r, 26) = Number(RatInt(m.harsh_braking))
                /\ CellValue(r, 27) = Number(RatInt(m.harsh_cornering))
                /\ CellValue(r, 28) = Number(RatInt(m.total_harsh_events))
                /\ CellValue(r, 29) = Text(DateStr(settings.end_date))

\* C17: for every speeding_violations value v >= 0, columns 16-23 of a
\* Driver Performance data row hold v div 8, v div 6, v div 4, v div 3,
\* v div 2, v div 2, v, v, none of them negative; for v = 16 they are
\* 2, 2, 4, 5, 8, 8, 16, 16.
C17_SpeedingBrackets ==
    Generated("driver") =>
        \A i \in DOMAIN Rendered :
            LET r == 12 + i - 1
                v == Rendered[i].metrics.speeding_violations
                n(c) == CellValue(r, c).num.n
            IN  v >= 0 =>
                  /\ \A c \in 16..23 :
                        /\ IsNumber(CellValue(r, c))
                        /\ CellValue(r, c).num.d = 1
                        /\ n(c) >= 0
                  /\ <<n(16), n(17), n(18), n(19), n(20), n(21), n(22), n(23)>>
                        = <<v \div 8, v \div 6, v \div 4, v \div 3, v \div 2,
                            v \div 2, v, v>>
                  /\ v = 16 =>
                        <<n(16), n(17), n(18), n(19), n(20), n(21), n(22), n(23)>>
                            = <<2, 2, 4, 5, 8, 8, 16, 16>>

\* A Driver Performance report with a vehicle of 16 speeding violations.
C17_Witness ==
    /\ Generated("driver")
    /\ \E i \in DOMAIN Rendered :
            /\ Rendered[i].metrics.speeding_violations = 16
            /\ CellValue(12 + i - 1, 18).num.n = 4

\* The first data row of the generated template and the column that
\* carries the vehicle's name.
FirstDataRow == IF report[1].template = "driver" THEN 12 ELSE 10

NameCell(vehicle) ==
    IF report[1].template = "driver"
    THEN [col |-> 1, value |-> Text("Driver - " \o vehicle.name)]
    ELSE [col |-> 2, value |-> Text(vehicle.name)]

\* C18: both generators write exactly one data row per processed vehicle,
\* in the order of the list they are given: the i-th vehicle, counting from
\* 0, is on row start + i, start being 12 (Driver) or 10 (Vehicle); no
\* vehicle is skipped, one whose total_distance is 0 included.
C18_OneRowPerVehicle ==
    report # None =>
        /\ RowsFrom(ReportCells, FirstDataRow - 1)
              = FirstDataRow..(FirstDataRow + Len(Rendered) - 1)
        /\ \A i \in DOMAIN Rendered :
            LET r == FirstDataRow + i - 1
                name == NameCell(Rendered[i])
            IN  /\ CellValue(r, name.col) = name.value
                /\ CellValue(r, name.col + 1)
                      = Number(Rat(Rendered[i].metrics.total_distance, 100))

\* A report of several vehicles where one that did not move is followed by
\* another vehicle.
C18_Witness ==
    /\ report # None
    /\ \E i \in DOMAIN Rendered :
            /\ i < Len(Rendered)
            /\ Rendered[i].metrics.total_distance = 0
            /\ CellValue(FirstDataRow + i - 1, NameCell(Rendered[i]).col)
                  = NameCell(Rendered[i]).value

\* The last label column of the generated template.
LabelCols == IF report[1].template = "driver" THEN 1 ELSE 2

\* The data cells of the generated worksheet.
DataCells == {x \in DOMAIN ReportCells : x[1] >= FirstDataRow}

\* C19: in both templates a data cell has the 2-decimal number format
\* exactly when its value is numeric and its column is beyond the label
\* columns (column > 1 in Driver Performance, > 2 in Vehicle Performance);
\* every other data cell has the plain text format.
C19_NumberFormat ==
    report # None =>
        \A x \in DataCells :
            LET cell == ReportCells[x]
                numeric == IsNumber(cell.value) /\ x[2] > LabelCols
            IN  /\ numeric <=> /\ "num_format" \in DOMAIN cell.format
                                /\ cell.format.num_format = "#,##0.00"
                /\ numeric => cell.format = number_format
                /\ ~numeric => cell.format = data_format

\* A generated report whose data cells carry both formats: labels, blanks
\* and numbers.
C19_Witness ==
    /\ report # None
    /\ \E x, y, z \in DataCells :
            /\ x[2] <= LabelCols /\ ReportCells[x].format = data_format
            /\ y[2] > LabelCols /\ ReportCells[y].value = Text("")
            /\ ReportCells[y].format = data_format
            /\ z[2] > LabelCols /\ IsNumber(ReportCells[z].value)
            /\ ReportCells[z].format = number_format

\* The record of fleet_data a processed vehicle was made from.
FleetRecord(vehicle) ==
    fleet_data[CHOOSE k \in DOMAIN fleet_data : fleet_data[k].id = vehicle.id]

\* The writes of one data row of the generated template, for a vehicle
\* taken alone.
RowAlone(vehicle, row) ==
    IF report[1].template = "driver"
    THEN driver_write_row(<<>>, row,
                          driver_row_data(vehicle, report[1].given.date_range))
    ELSE vehicle_write_row(<<>>, row, vehicle_row_data(vehicle))

---------------------------------------------------------------------------
(* The event counts of the synthesizer, under SpecSynth.                   *)

\* period_distance of the call in hundredths of a kilometre:
\* daily_distance_base * period_days * activity_factor.
PeriodDistance100 ==
    (50 + (call[1].name_hash % 100)) * call[1].period_days
        * TierFactor(TierOf(call[1].vehicle_data.days_inactive))

\* C21: for every vehicle, tier and period_days, harsh_acceleration and
\* harsh_braking are both max(0, floor((period_distance / 100) * (seed mod
\* 3))), harsh_cornering is max(0, floor((period_distance / 150) * (seed
\* mod 2))) and speeding_violations is max(0, floor((driving_hours / 5) *
\* (seed mod 2))), driving_hours being period_distance / (35 + seed mod
\* 25); the four counts are non-negative integers, and harsh_cornering and
\* speeding_violations are 0 whenever the seed is even.
C21_EventCounts ==
    call # None =>
        LET m    == call[1].metrics
            seed == call[1].name_hash
        IN  /\ m.harsh_acceleration
                  = Max(0, (PeriodDistance100 * (seed % 3)) \div 10000)
            /\ m.harsh_braking = m.harsh_acceleration
            /\ m.harsh_cornering
                  = Max(0, (PeriodDistance100 * (seed % 2)) \div 15000)
            /\ m.speeding_violations
                  = Max(0, (PeriodDistance100 * (seed % 2))
                              \div (500 * (35 + (seed % 25))))
            /\ \A k \in {"harsh_acceleration", "harsh_braking",
                         "harsh_cornering", "speeding_violations"} :
                    m[k] \in Nat
            /\ seed % 2 = 0 =>
                    m.harsh_cornering = 0 /\ m.speeding_violations = 0

\* A call with an odd seed that returned events of all four kinds.
C21_Witness ==
    /\ call # None
    /\ call[1].name_hash % 2 = 1
    /\ call[1].metrics.harsh_acceleration > 0
    /\ call[1].metrics.harsh_braking > 0
    /\ call[1].metrics.harsh_cornering > 0
    /\ call[1].metrics.speeding_violations > 0

---------------------------------------------------------------------------
(* The session and the page, under Spec.                                   *)

\* C22: across any sequence of login, make_request and connect actions,
\* whenever the connected flag of the page is True the service holds a
\* session_id that is not None; after make_request has received a
\* session-expired answer (error code 1) and cleared session_id, the flag
\* is no longer True.
C22_ConnectedHasSession == connected => session_id # None

---------------------------------------------------------------------------
(* The choice of the last message, under SpecFleet.                        *)

\* The answer carries a list of messages that is not empty.
Yields(resp) ==
    /\ resp.kind = "json"
    /\ "error" \notin DOMAIN resp.body
    /\ "messages" \in DOMAIN resp.body
    /\ resp.body.messages # <<>>

\* The record is the one the loop makes with this message in hand: it
\* carries the time of the message, or keeps its defaults when processing
\* the message raises.
MadeFrom(v, m) ==
    IF Unprocessable(m) THEN KeepsDefaults(v)
    ELSE v.last_message = Some(Get(m, "t", JNum(0)).num)

---------------------------------------------------------------------------
(* The processed list, under SpecReport.                                   *)

\* C24: after any "Process Fleet Data", processed_data holds exactly one
\* processed vehicle per selected vehicle, in the order of the selection,
\* and all of them have the same report_period, report_type and
\* metrics.period_days, period_days being (end_date - start_date).days + 1;
\* so the date range and the report type the report buttons take from
\* processed_data[0] are those of every row.
C24_ProcessedUniform ==
    call # None =>
        LET selected == call[1].selected_vehicles
        IN  /\ Len(processed_data) = Len(selected)
            /\ \A i \in DOMAIN processed_data :
                LET v == processed_data[i]
                IN  /\ v.id = selected[i].id
                    /\ v.name = selected[i].name
                    /\ v.report_period = processed_data[1].report_period
                    /\ v.report_type = processed_data[1].report_type
                    /\ v.metrics.period_days
                          = processed_data[1].metrics.period_days
                    /\ v.metrics.period_days
                          = (call[1].end_date - call[1].start_date) + 1
                    /\ v.report_type = call[1].report_type
                    /\ v.report_period
                          = ToString(call[1].start_date) \o " to "
                                \o ToString(call[1].end_date)
                    /\ report # None =>
                          /\ report[1].given.report_type = v.report_type
                          /\ v.report_period
                                = report[1].given.date_range.from \o " to "
                                      \o report[1].given.date_range.to

\* Three vehicles selected in another order than the fleet's, processed,
\* and a report generated from them.
C24_Witness ==
    /\ call # None
    /\ report # None
    /\ Len(processed_data) = 3
    /\ processed_data[1].id = fleet_data[3].id
    /\ processed_data[2].id = fleet_data[1].id
    /\ processed_data[3].report_period = processed_data[1].report_period
    /\ processed_data[1].metrics.period_days > 1

---------------------------------------------------------------------------
(* Headers and data columns of the templates, under SpecReport.            *)

\* The columns whose header cell in the given row carries the label.
Under(cells, row, label) ==
    {c \in ColsOf(cells, row) : cells[<<row, c>>].value = Text(label)}

\* C25: in each template the two header rows and every data row have the
\* same number of cells, 32 for Driver Performance and 34 for Vehicle
\* Performance, so that every data column is under a header cell of its
\* index; and the header label of a column names the quantity the data
\* row holds there: the raw figures, the distance and the hours, the
\* 'Total' of the violations, the harsh events and their total, and in the
\* Vehicle Performance template the fuel by driving hours and by idling
\* duration and the CO2 emission.
C25_HeadersNameColumns ==
    report # None =>
        LET cells == ReportCells
            h1 == FirstDataRow - 3
            h2 == FirstDataRow - 2
        IN  /\ ColsOf(cells, h1) = ColsOf(cells, h2)
            /\ Cardinality(ColsOf(cells, h1))
                  = IF report[1].template = "driver" THEN 32 ELSE 34
            /\ Under(cells, h2, "Total") # {}
            /\ Under(cells, h1, "TOTAL") # {}
            /\ \A i \in DOMAIN Rendered :
                LET r == FirstDataRow + i - 1
                    m == Rendered[i].metrics
                    holds(row, label, value) ==
                        \A c \in Under(cells, row, label) :
                            cells[<<r, c>>].value = value
                IN  /\ ColsOf(cells, r) = ColsOf(cells, h1)
                    /\ holds(h2, "Mileage", Number(Rat(m.total_distance, 100)))
                    /\ holds(h2, "Driving Hours",
                             Number(Rat(m.driving_hours, 100)))
                    /\ holds(h2, "Idling Duration",
                             Number(Rat(m.idling_hours, 100)))
                    /\ holds(h2, "Engine Hours",
                             Number(Rat(m.engine_hours, 100)))
                    /\ holds(h1, "TOTAL DISTANCE(KM)",
                             Number(Rat(m.total_distance, 100)))
                    /\ holds(h1, "TOTAL DRIVING HOURS",
                             Number(Rat(m.driving_hours, 100)))
                    /\ holds(h1, "Idling", Number(Rat(m.idling_hours, 100)))
                    /\ holds(h1, "ENGINE HOURS",
                             Number(Rat(m.engine_hours, 100)))
                    /\ holds(h2, "Total", Number(RatInt(m.speeding_violations)))
                    /\ holds(h1, "HARSH\nACCELERATION",
                             Number(RatInt(m.harsh_acceleration)))
                    /\ holds(h1, "HARSH\nBRAKING",
                             Number(RatInt(m.harsh_braking)))
                    /\ holds(h1, "HARSH\nTURNING",
                             Number(RatInt(m.harsh_cornering)))
                    /\ holds(h1, "TOTAL", Number(RatInt(m.total_harsh_events)))
                    /\ holds(h1, "Date", Text(report[1].given.date_range.to))
                    /\ holds(h1, "Vehicle No.", Text(Rendered[i].name))
                    /\ holds(h1, "TOTAL CO2 EMISSION (KG)",
                             Number(Rat(m.co2_emission, 100)))
                    /\ holds(h2, "DRIVING HOURS", fuel_during_driving(m))
                    /\ holds(h2, "IDLING DURATION", fuel_during_idling(m))

=============================================================================
